---- MODULE Spec2Model ----
(***************************************************************************)
(* Statement normalization engine of app.py: the dispatcher                *)
(* (process_dataframe), the two extraction strategies (_process_tabular,   *)
(* _process_messy_pdf), the cell normalizers (clean_amount,                *)
(* _safe_parse_date), the categorizer and the summary (_compute_summary).  *)
(*                                                                         *)
(* Cells are Python values: a text cell, a numeric cell (int/float read    *)
(* from a CSV) or a null cell (None/NaN).  Text is a TLA+ string and is    *)
(* processed character by character, as the code's str methods and         *)
(* regular expressions do.  Amounts are exact numbers of hundredths        *)
(* (250.0 is 25000); every amount of the input alphabet has at most two    *)
(* fractional digits.                                                      *)
(***************************************************************************)
EXTENDS Integers, Sequences, FiniteSets, TLC

VARIABLES
    columns,         \* df.columns
    rows,            \* the rows of df, each a sequence of cells
    pc,              \* where process_dataframe is
    strategy,        \* the strategy the dispatcher chose
    roles,           \* the column roles (tabular) or indices (messy) resolved
    ri,              \* the row the strategy's loop is at (1-based)
    processed_rows,  \* the transactions produced so far
    last,            \* what the latest loop iteration did
    outcome,         \* "none", "summary" (returned) or "error" (ValueError raised)
    message,         \* which ValueError was raised
    summary          \* the returned summary

vars ==
    <<columns, rows, pc, strategy, roles, ri, processed_rows, last, outcome, message,
      summary>>

(***************************************************************************)
(* Python str primitives                                                   *)
(***************************************************************************)
Ch(s, i) == IF i >= 1 /\ i <= Len(s) THEN SubSeq(s, i, i) ELSE ""

Digits == "0123456789"
LowerAlphabet == "abcdefghijklmnopqrstuvwxyz"
UpperAlphabet == "ABCDEFGHIJKLMNOPQRSTUVWXYZ"

CharsOf(alphabet) == {SubSeq(alphabet, i, i) : i \in 1..Len(alphabet)}
DigitChars == CharsOf(Digits)
LowerChars == CharsOf(LowerAlphabet)
UpperChars == CharsOf(UpperAlphabet)

IsDigit(c) == c \in DigitChars
IsAlpha(c) == c \in LowerChars \/ c \in UpperChars
IsSpace(c) == c = " "

\* the element of a one-element set: {F(a) : a \in {e}} evaluates e once for F
TheOne(S) == CHOOSE x \in S : TRUE

IndexIn(alphabet, c) == CHOOSE i \in 1..Len(alphabet) : SubSeq(alphabet, i, i) = c
DigitVal(c) == IndexIn(Digits, c) - 1

\* x in s (substring test)
Contains(s, t) ==
    \E i \in 1..(Len(s) - Len(t) + 1) : SubSeq(s, i, i + Len(t) - 1) = t

\* any(x in s for x in kws)
ContainsAny(s, kws) == \E k \in kws : Contains(s, k)

\* str.lower(), str.upper()
RECURSIVE MapChars(_, _, _)
MapChars(s, from, to) ==
    IF s = "" THEN ""
    ELSE LET c == SubSeq(s, 1, 1)
             d == IF c \in CharsOf(from) THEN Ch(to, IndexIn(from, c)) ELSE c
         IN  d \o MapChars(SubSeq(s, 2, Len(s)), from, to)

Lower(s) == MapChars(s, UpperAlphabet, LowerAlphabet)
Upper(s) == MapChars(s, LowerAlphabet, UpperAlphabet)

\* str.strip()
RECURSIVE LStrip(_)
LStrip(s) == IF s # "" /\ IsSpace(Ch(s, 1)) THEN LStrip(SubSeq(s, 2, Len(s))) ELSE s
RECURSIVE RStrip(_)
RStrip(s) ==
    IF s # "" /\ IsSpace(Ch(s, Len(s))) THEN RStrip(SubSeq(s, 1, Len(s) - 1)) ELSE s
Strip(s) == RStrip(LStrip(s))

\* str.replace(old, ''): every non-overlapping occurrence, left to right
RECURSIVE Remove(_, _)
Remove(s, old) ==
    IF Len(s) < Len(old) THEN s
    ELSE IF SubSeq(s, 1, Len(old)) = old
         THEN Remove(SubSeq(s, Len(old) + 1, Len(s)), old)
         ELSE SubSeq(s, 1, 1) \o Remove(SubSeq(s, 2, Len(s)), old)

\* capitalize() of a category name
Capitalize(s) == Upper(SubSeq(s, 1, 1)) \o Lower(SubSeq(s, 2, Len(s)))

\* index just past the maximal run of digits that starts at i
RECURSIVE DigitsEnd(_, _)
DigitsEnd(s, i) == IF IsDigit(Ch(s, i)) THEN DigitsEnd(s, i + 1) ELSE i

\* int() of a run of digits
RECURSIVE IntOf(_)
IntOf(s) ==
    IF s = "" THEN 0 ELSE 10 * IntOf(SubSeq(s, 1, Len(s) - 1)) + DigitVal(Ch(s, Len(s)))

(***************************************************************************)
(* Cells                                                                   *)
(***************************************************************************)
T(s) == [k |-> "str", s |-> s, n |-> 0]        \* a text cell
N(s, n) == [k |-> "num", s |-> s, n |-> n]     \* a numeric cell: str(v), hundredths
NaN == [k |-> "nan", s |-> "nan", n |-> 0]     \* a null cell; str(NaN) = 'nan'

\* str(val)
Str(val) == val.s
\* pd.isna(val)
IsNa(val) == val.k = "nan"

(***************************************************************************)
(* clean_amount: re.search(r'[-+]?\d*\.\d+|\d+', val_str) and float()      *)
(***************************************************************************)
\* end (exclusive) of a match of [-+]?\d*\.\d+ at i, 0 when there is none
SignedDecimalEnd(s, i) ==
    LET j == IF Ch(s, i) \in {"-", "+"} THEN i + 1 ELSE i
        k == DigitsEnd(s, j)
    IN  IF Ch(s, k) = "." /\ IsDigit(Ch(s, k + 1)) THEN DigitsEnd(s, k + 1) ELSE 0

\* end (exclusive) of a match of \d+ at i, 0 when there is none
DigitRunEnd(s, i) == IF IsDigit(Ch(s, i)) THEN DigitsEnd(s, i) ELSE 0

\* a | b of two match ends: the first alternative wins
OrElse(a, b) == IF a # 0 THEN a ELSE b

\* the alternation tried at one position
AmountMatchEnd(s, i) == OrElse(SignedDecimalEnd(s, i), DigitRunEnd(s, i))

\* the least element of a set of positions, 0 when it is empty
FirstOf(S) == IF S = {} THEN 0 ELSE CHOOSE a \in S : \A b \in S : a <= b

\* the text matched at i, "" when i is 0 (no match)
MatchAt(s, i) == IF i = 0 THEN "" ELSE SubSeq(s, i, AmountMatchEnd(s, i) - 1)

\* match.group() of the leftmost match, "" when re.search returns None
AmountMatch(s) == MatchAt(s, FirstOf({i \in 1..Len(s) : AmountMatchEnd(s, i) # 0}))

\* float(text) of a matched numeral, in hundredths
FloatOf(text) ==
    LET neg  == Ch(text, 1) = "-"
        body == IF Ch(text, 1) \in {"-", "+"} THEN SubSeq(text, 2, Len(text)) ELSE text
        e    == DigitsEnd(body, 1)
        whole == IntOf(SubSeq(body, 1, e - 1))
        frac == IF Ch(body, e) = "." THEN SubSeq(body, e + 1, Len(body)) ELSE ""
        cents == IntOf(SubSeq(frac \o "00", 1, 2))
        mag  == 100 * whole + cents
    IN  IF neg THEN 0 - mag ELSE mag

\* lines 25-30: float(match.group()) when there is a match, else 0.0
MatchValue(match) == IF match # "" THEN FloatOf(match) ELSE 0

clean_amount(val) ==
    IF IsNa(val) THEN 0
    ELSE IF val.k = "num" THEN val.n
    ELSE MatchValue(AmountMatch(Remove(Remove(Strip(Str(val)), ","), "₹")))

(***************************************************************************)
(* categorize_merchant                                                     *)
(***************************************************************************)
CategoryOrder == <<"food", "transport", "shopping", "entertainment", "bills", "transfer">>

CategoryKeywords(cat) ==
    CASE cat = "food" -> {"restaurant", "cafe", "swiggy", "zomato", "mcdonalds", "kfc",
                          "food", "dominos", "coffee", "grocery", "supermarket", "mart"}
      [] cat = "transport" -> {"uber", "ola", "taxi", "petrol", "fuel", "transit", "rail",
                               "irctc", "flight"}
      [] cat = "shopping" -> {"amazon", "flipkart", "myntra", "shopping", "store", "mall",
                              "retail"}
      [] cat = "entertainment" -> {"netflix", "spotify", "movie", "cinema", "bookmyshow",
                                   "game"}
      [] cat = "bills" -> {"electricity", "water", "internet", "mobile", "recharge",
                           "broadband", "insurance", "emi", "loan"}
      [] cat = "transfer" -> {"up", "transfer", "add money", "upi", "phonepe", "wallet"}

categorize_merchant(merchant) ==
    LET m == Lower(merchant)
        hits == {i \in 1..Len(CategoryOrder) : ContainsAny(m, CategoryKeywords(CategoryOrder[i]))}
    IN  IF hits = {} THEN "Other"
        ELSE Capitalize(CategoryOrder[CHOOSE i \in hits : \A j \in hits : i <= j])

(***************************************************************************)
(* Calendar dates.  A parsed date is [ok, y, m, d]; NaT is the invalid one. *)
(* The texts of the input alphabet carry no time of day.                   *)
(***************************************************************************)
NaT == [ok |-> FALSE, y |-> 0, m |-> 0, d |-> 0]
Date(y, m, d) == [ok |-> TRUE, y |-> y, m |-> m, d |-> d]

IsLeap(y) == (y % 4 = 0 /\ y % 100 # 0) \/ y % 400 = 0
MonthLengths(y) ==
    <<31, IF IsLeap(y) THEN 29 ELSE 28, 31, 30, 31, 30, 31, 31, 30, 31, 30, 31>>

RECURSIVE DaysBeforeMonth(_, _)
DaysBeforeMonth(y, m) ==
    IF m <= 1 THEN 0 ELSE DaysBeforeMonth(y, m - 1) + MonthLengths(y)[m - 1]

\* datetime.toordinal(): day 1 is Monday 0001-01-01
Ordinal(dt) ==
    LET p == dt.y - 1
    IN  365 * p + (p \div 4) - (p \div 100) + (p \div 400) + DaysBeforeMonth(dt.y, dt.m) + dt.d

(***************************************************************************)
(* dateutil's parser.parse(val_str, fuzzy=True, dayfirst=True), the        *)
(* library call of _safe_parse_date, for texts made of words, runs of      *)
(* digits and separators.  A word that is no month name is skipped         *)
(* (fuzzy); a run of digits is a date field unless it belongs to a time    *)
(* (hh:mm) or follows three date fields as a 2- or 4-digit hour.  A text    *)
(* with more than three date fields, a second year, or fewer than three    *)
(* date fields does not parse (the library would fill missing fields from  *)
(* the day of the run; the input alphabet holds no such text).             *)
(***************************************************************************)
MonthNames ==
    <<{"jan", "january"}, {"feb", "february"}, {"mar", "march"}, {"apr", "april"},
      {"may"}, {"jun", "june"}, {"jul", "july"}, {"aug", "august"},
      {"sep", "sept", "september"}, {"oct", "october"}, {"nov", "november"},
      {"dec", "december"}>>

MonthOf(word) ==
    IF \E i \in 1..12 : word \in MonthNames[i]
    THEN CHOOSE i \in 1..12 : word \in MonthNames[i] ELSE 0

RECURSIVE AlphaEnd(_, _)
AlphaEnd(s, i) == IF IsAlpha(Ch(s, i)) THEN AlphaEnd(s, i + 1) ELSE i

\* the words and digit runs of s from position i on, each with its neighbours
RECURSIVE Tokenize(_, _)
Tokenize(s, i) ==
    IF i > Len(s) THEN <<>>
    ELSE IF IsDigit(Ch(s, i))
         THEN LET e == DigitsEnd(s, i)
              IN  <<[t |-> SubSeq(s, i, e - 1), num |-> TRUE,
                     prev |-> Ch(s, i - 1), next |-> Ch(s, e)]>> \o Tokenize(s, e)
    ELSE IF IsAlpha(Ch(s, i))
         THEN LET e == AlphaEnd(s, i)
              IN  <<[t |-> SubSeq(s, i, e - 1), num |-> FALSE,
                     prev |-> Ch(s, i - 1), next |-> Ch(s, e)]>> \o Tokenize(s, e)
    ELSE Tokenize(s, i + 1)

EmptyYmd == [v |-> <<>>, yi |-> 0, mi |-> 0, hour |-> FALSE, fail |-> FALSE]

\* _ymd.append(val, label)
YmdAppend(st, val, label) ==
    IF (label = "Y" /\ st.yi # 0) \/ (label = "M" /\ st.mi # 0)
    THEN [st EXCEPT !.fail = TRUE]
    ELSE [st EXCEPT !.v = Append(st.v, val),
                    !.yi = IF label = "Y" THEN Len(st.v) + 1 ELSE st.yi,
                    !.mi = IF label = "M" THEN Len(st.v) + 1 ELSE st.mi]

\* one token of the parse loop
ParseToken(st, tok) ==
    IF st.fail THEN st
    ELSE IF ~tok.num
         THEN IF MonthOf(tok.t) # 0 THEN YmdAppend(st, MonthOf(tok.t), "M") ELSE st
    ELSE IF tok.prev = ":" \/ tok.next = ":" THEN [st EXCEPT !.hour = TRUE]
    ELSE IF Len(st.v) = 3 /\ Len(tok.t) \in {2, 4} /\ ~st.hour
         THEN [st EXCEPT !.hour = TRUE]
    ELSE IF Len(tok.t) = 6
         THEN IF st.v = <<>>
              THEN YmdAppend(YmdAppend(YmdAppend(st, IntOf(SubSeq(tok.t, 1, 2)), ""),
                                       IntOf(SubSeq(tok.t, 3, 4)), ""),
                             IntOf(SubSeq(tok.t, 5, 6)), "")
              ELSE [st EXCEPT !.hour = TRUE]
    ELSE IF Len(tok.t) \in {8, 12, 14}
         THEN YmdAppend(YmdAppend(YmdAppend(st, IntOf(SubSeq(tok.t, 1, 4)), "Y"),
                                  IntOf(SubSeq(tok.t, 5, 6)), ""),
                        IntOf(SubSeq(tok.t, 7, 8)), "")
    ELSE YmdAppend(st, IntOf(tok.t),
                   IF Len(tok.t) > 2 \/ IntOf(tok.t) > 100 THEN "Y" ELSE "")

RECURSIVE ParseTokens(_, _)
ParseTokens(st, toks) ==
    IF toks = <<>> THEN st
    ELSE TheOne({ParseTokens(a, Tail(toks)) : a \in {ParseToken(st, Head(toks))}})

\* _ymd.resolve_ymd(yearfirst=False, dayfirst=True) of three fields: <<y, m, d>>
ResolveYmd(st) ==
    LET v == st.v
    IN  IF st.yi # 0 /\ st.mi # 0
        THEN LET di == CHOOSE i \in 1..3 : i # st.yi /\ i # st.mi
             IN  <<v[st.yi], v[st.mi], v[di]>>
        ELSE IF st.mi = 1 THEN (IF v[2] > 31 THEN <<v[2], v[1], v[3]>> ELSE <<v[3], v[1], v[2]>>)
        ELSE IF st.mi = 2 THEN (IF v[1] > 31 THEN <<v[1], v[2], v[3]>> ELSE <<v[3], v[2], v[1]>>)
        ELSE IF st.mi = 3 THEN (IF v[2] > 31 THEN <<v[2], v[3], v[1]>> ELSE <<v[1], v[3], v[2]>>)
        ELSE IF v[1] > 31 \/ st.yi = 1
             THEN (IF v[3] <= 12 THEN <<v[1], v[3], v[2]>> ELSE <<v[1], v[2], v[3]>>)
        ELSE IF v[1] > 12 \/ v[2] <= 12 THEN <<v[3], v[2], v[1]>>
        ELSE <<v[3], v[1], v[2]>>

\* the date of resolved fields; a day the month does not have is a ValueError
ValidDate(y, m, d) ==
    IF m \in 1..12 /\ d >= 1 /\ d <= MonthLengths(y)[m] THEN Date(y, m, d) ELSE NaT

\* a two-digit year is taken in the current century
DateOfYmd(r) == ValidDate(IF r[1] < 100 THEN 2000 + r[1] ELSE r[1], r[2], r[3])

ParsedDate(st) == IF st.fail \/ Len(st.v) # 3 THEN NaT ELSE DateOfYmd(ResolveYmd(st))

parser_parse(val_str) == ParsedDate(ParseTokens(EmptyYmd, Tokenize(val_str, 1)))

(***************************************************************************)
(* _safe_parse_date                                                        *)
(***************************************************************************)
MonthAbbrevs ==
    {"jan", "feb", "mar", "apr", "may", "jun", "jul", "aug", "sep", "oct", "nov", "dec"}

MinYear == 2010

\* re.search(r'\d{4}', s)
HasYear(s) == \E i \in 1..Len(s) : \A j \in i..(i + 3) : IsDigit(Ch(s, j))

DateSeps == {"/", "-", "."}

\* re.search(r'\d{1,2}[/\-\.]\d{1,2}[/\-\.]\d{2,4}', s)
HasDatePattern(s) ==
    \E i \in 1..Len(s) : \E a \in 1..2 : \E b \in 1..2 :
        /\ \A j \in i..(i + a - 1) : IsDigit(Ch(s, j))
        /\ Ch(s, i + a) \in DateSeps
        /\ \A j \in (i + a + 1)..(i + a + b) : IsDigit(Ch(s, j))
        /\ Ch(s, i + a + b + 1) \in DateSeps
        /\ IsDigit(Ch(s, i + a + b + 2)) /\ IsDigit(Ch(s, i + a + b + 3))

\* re.fullmatch(r'[\d\s:amp\.]+', s) and ':' in s
IsTimeOnly(s) ==
    /\ s # ""
    /\ \A i \in 1..Len(s) : IsDigit(Ch(s, i)) \/ Ch(s, i) \in {" ", ":", "a", "m", "p", "."}
    /\ Contains(s, ":")

\* lines 68-70: a parse before MinYear is rejected
YearFloor(p_dt) == IF ~p_dt.ok \/ p_dt.y < MinYear THEN NaT ELSE p_dt

_safe_parse_date(text) ==
    LET val_str == Remove(Remove(Lower(Strip(text)), "nan"), "none")
    IN  IF val_str = "" THEN NaT
        ELSE IF ~ContainsAny(val_str, MonthAbbrevs) /\ ~HasYear(val_str)
                /\ ~HasDatePattern(val_str) THEN NaT
        ELSE IF IsTimeOnly(val_str) THEN NaT
        ELSE YearFloor(parser_parse(val_str))

(***************************************************************************)
(* Helpers shared by the strategies                                        *)
(***************************************************************************)
Min(a, b) == IF a <= b THEN a ELSE b

\* sep.join(parts)
RECURSIVE Join(_, _)
Join(parts, sep) ==
    IF parts = <<>> THEN ""
    ELSE IF Len(parts) = 1 THEN parts[1]
    ELSE parts[1] \o sep \o Join(Tail(parts), sep)

\* next((i for i, v in enumerate(seq) if P(v)), default), 0-based; hits are
\* the 1-based positions of seq where P holds
FirstIdx(hits, default) ==
    IF hits = {} THEN default ELSE (CHOOSE i \in hits : \A j \in hits : i <= j) - 1

\* a produced transaction; c is [debit, credit]
Txn(dt, desc, c) ==
    [Date |-> dt, Description |-> desc, Category |-> categorize_merchant(desc),
     Debit |-> c.debit, Credit |-> c.credit]

NoTxn == [Date |-> NaT, Description |-> "", Category |-> "", Debit |-> 0, Credit |-> 0]

\* what one iteration of a strategy's row loop did
Emit(path, txn, type_str, amt) ==
    [emit |-> TRUE, path |-> path, txn |-> txn, type_str |-> type_str, amt |-> amt]
Skip(path) ==
    [emit |-> FALSE, path |-> path, txn |-> NoTxn, type_str |-> "", amt |-> 0]

(***************************************************************************)
(* _scan_type_amount, _classify_amount                                     *)
(***************************************************************************)
TypeKeywords ==
    {"DEBIT", "CREDIT", "RECEIVED", "PAID", "SENT", "REFUND", "DR", "CR", "WITHDRAWAL",
     "DEPOSIT"}

\* lines 87-89: a positive test_amt replaces amt
PickAmount(test_amt, amt) == IF test_amt > 0 THEN test_amt ELSE amt

\* lines 86-89 for the upper-cased cell v at ci, with type_str as updated by line 85
ScanAmount(v, ci, type_str, amt) ==
    [type_str |-> type_str,
     amt |-> IF Contains(v, "₹") \/ (type_str # "" /\ ci > 0)
             THEN PickAmount(clean_amount(T(v)), amt) ELSE amt]

\* lines 84-85, then the amount
ScanText(v, ci, acc) ==
    ScanAmount(v, ci, IF v \in TypeKeywords THEN v ELSE acc.type_str, acc.amt)

\* the loop body for cell ci (0-based), from the state acc = [type_str, amt]
ScanCell(vals, ci, acc) == ScanText(Upper(Strip(Str(vals[ci + 1]))), ci, acc)

RECURSIVE ScanFrom(_, _, _)
ScanFrom(vals, ci, acc) ==
    IF ci >= Len(vals) THEN acc
    ELSE TheOne({ScanFrom(vals, ci + 1, a) : a \in {ScanCell(vals, ci, acc)}})

_scan_type_amount(vals, start) == ScanFrom(vals, start, [type_str |-> "", amt |-> 0])

DebitKw == {"DEBIT", "PAID", "WITHDRAWAL", "SENT", "DR"}
CreditKw == {"CREDIT", "RECEIVED", "DEPOSIT", "REFUND", "CR"}

\* faulty variant of _classify_amount: 'D' among the debit keywords, which
\* CREDIT and RECEIVED contain as well
_classify_amount_loose(type_str, amt) ==
    [debit |-> IF ContainsAny(type_str, DebitKw \cup {"D"}) \/ ~ContainsAny(type_str, CreditKw)
               THEN amt ELSE 0,
     credit |-> IF ContainsAny(type_str, CreditKw) THEN amt ELSE 0]

_classify_amount(type_str, amt) ==
    LET debit == IF ContainsAny(type_str, DebitKw) THEN amt ELSE 0
        credit == IF ContainsAny(type_str, CreditKw) THEN amt ELSE 0
    IN  IF debit = 0 /\ credit = 0
        THEN [debit |-> amt, credit |-> 0]
        ELSE [debit |-> debit, credit |-> credit]

(***************************************************************************)
(* _process_tabular                                                        *)
(***************************************************************************)
\* next((c for c in cols if any(x in c for x in kws) [and 'type' not in c]), None);
\* "" stands for None (an empty name is never selected and is falsy as well)
FindCol(cols, kws, exclude_type) ==
    LET hits == {i \in 1..Len(cols) :
                    ContainsAny(cols[i], kws) /\ (exclude_type => ~Contains(cols[i], "type"))}
    IN  IF hits = {} THEN "" ELSE cols[CHOOSE i \in hits : \A j \in hits : i <= j]

TabularRoles(cols) ==
    [date_col |-> FindCol(cols, {"date", "txn date", "value date", "trans date"}, FALSE),
     desc_col |-> FindCol(cols, {"description", "desc", "details", "narration",
                                 "particulars", "merchant", "transaction"}, FALSE),
     debit_col |-> FindCol(cols, {"debit", "withdrawal", "dr", "paid", "spent"}, TRUE),
     credit_col |-> FindCol(cols, {"credit", "deposit", "cr", "received", "income"}, TRUE),
     amount_col |-> FindCol(cols, {"amount", "value", "amt"}, TRUE),
     type_col |-> FindCol(cols, {"type", "dr/cr", "transaction type"}, FALSE)]

\* the two structural checks before the row loop: the ValueError raised, "" when none
TabularMissing(r) ==
    IF r.date_col = "" \/ r.desc_col = "" THEN "no date and description columns"
    ELSE IF r.debit_col = "" /\ r.credit_col = "" /\ r.amount_col = ""
         THEN "no amount, debit or credit columns"
    ELSE ""

\* row.get(col)
RowGet(cols, row, col) == row[CHOOSE i \in 1..Len(cols) : cols[i] = col]

TabularCreditWords == {"CR", "CREDIT", "RECEIVED", "DEPOSIT", "REFUND"}

\* faulty variant of TabularAmounts: the amount column is preferred to the
\* debit and credit pair
TabularAmounts_amount_first(cols, r, row) ==
    IF r.amount_col # ""
    THEN [ok |-> TRUE, debit |-> clean_amount(RowGet(cols, row, r.amount_col)), credit |-> 0]
    ELSE IF r.debit_col # "" /\ r.credit_col # ""
    THEN [ok |-> TRUE, debit |-> clean_amount(RowGet(cols, row, r.debit_col)),
          credit |-> clean_amount(RowGet(cols, row, r.credit_col))]
    ELSE [ok |-> FALSE, debit |-> 0, credit |-> 0]

\* variant of TabularAmounts that reads a debit or a credit column standing alone
TabularAmounts_single_side(cols, r, row) ==
    IF r.debit_col # "" /\ r.credit_col # ""
    THEN [ok |-> TRUE, debit |-> clean_amount(RowGet(cols, row, r.debit_col)),
          credit |-> clean_amount(RowGet(cols, row, r.credit_col))]
    ELSE IF r.amount_col # ""
    THEN [ok |-> TRUE, debit |-> clean_amount(RowGet(cols, row, r.amount_col)), credit |-> 0]
    ELSE IF r.debit_col # ""
    THEN [ok |-> TRUE, debit |-> clean_amount(RowGet(cols, row, r.debit_col)), credit |-> 0]
    ELSE IF r.credit_col # ""
    THEN [ok |-> TRUE, debit |-> 0, credit |-> clean_amount(RowGet(cols, row, r.credit_col))]
    ELSE [ok |-> FALSE, debit |-> 0, credit |-> 0]

\* the amount arrangement of one row: [ok, debit, credit]
TabularAmounts(cols, r, row) ==
    IF r.debit_col # "" /\ r.credit_col # ""
    THEN [ok |-> TRUE, debit |-> clean_amount(RowGet(cols, row, r.debit_col)),
          credit |-> clean_amount(RowGet(cols, row, r.credit_col))]
    ELSE IF r.amount_col # "" /\ r.type_col # ""
    THEN LET amt == clean_amount(RowGet(cols, row, r.amount_col))
             type_val == Upper(Str(RowGet(cols, row, r.type_col)))
         IN  IF ContainsAny(type_val, TabularCreditWords)
             THEN [ok |-> TRUE, debit |-> 0, credit |-> amt]
             ELSE [ok |-> TRUE, debit |-> amt, credit |-> 0]
    ELSE IF r.amount_col # ""
    THEN [ok |-> TRUE, debit |-> clean_amount(RowGet(cols, row, r.amount_col)), credit |-> 0]
    ELSE [ok |-> FALSE, debit |-> 0, credit |-> 0]

\* faulty variant of TabularDrop: strict comparisons let a zero row through
TabularDrop_strict(debit, credit) == debit < 0 /\ credit < 0

\* the final filter of a row: True when the row is dropped
TabularDrop(debit, credit) == debit <= 0 /\ credit <= 0

\* one iteration of the row loop
TabularRow(cols, r, row) ==
    LET dt == _safe_parse_date(Str(RowGet(cols, row, r.date_col)))
        desc == Strip(Str(RowGet(cols, row, r.desc_col)))
        a == TabularAmounts(cols, r, row)
    IN  IF ~dt.ok THEN Skip("no_date")
        ELSE IF desc = "" \/ Lower(desc) \in {"nan", "none", ""} THEN Skip("no_desc")
        ELSE IF ~a.ok THEN Skip("no_arrangement")
        ELSE IF TabularDrop(a.debit, a.credit) THEN Skip("no_amount")
        ELSE Emit("tabular", Txn(dt, desc, a), "", 0)

(***************************************************************************)
(* _process_messy_pdf                                                      *)
(***************************************************************************)
\* [str(x).lower() for x in row.values]
RowLower(row) == [i \in 1..Len(row) |-> Lower(Str(row[i]))]

\* the test that makes a row the header row
IsHeaderRow(row) ==
    LET row_str == Join(RowLower(row), " ")
    IN  Contains(row_str, "date")
        /\ (Contains(row_str, "transaction") \/ Contains(row_str, "details"))

IsDateHead(v) == Contains(v, "date") \/ v = "dat"
IsDescHead(v) == ContainsAny(v, {"transaction", "details", "desc", "narr"})
IsTypeHead(v) == Contains(v, "type") \/ Contains(v, "dr/cr")
IsAmtHead(v) == ContainsAny(v, {"amount", "amou", "amt"})
IsTypeName(v) == Contains(Lower(v), "type")
IsAmtName(v) == Contains(Lower(v), "amou") \/ Contains(Lower(v), "amt")

\* the indices after header discovery and the fallback defaults (0-based; -1 is None
\* before the defaults are applied)
MessyIndices(cols, table) ==
    LET hdrs == {i \in 1..Len(table) : IsHeaderRow(table[i])}
        found == hdrs # {}
        row_vals == IF found
                    THEN RowLower(table[CHOOSE i \in hdrs : \A j \in hdrs : i <= j])
                    ELSE <<>>
        date0 == FirstIdx({i \in 1..Len(row_vals) : IsDateHead(row_vals[i])}, -1)
        desc0 == FirstIdx({i \in 1..Len(row_vals) : IsDescHead(row_vals[i])}, -1)
        type0 == FirstIdx({i \in 1..Len(row_vals) : IsTypeHead(row_vals[i])}, -1)
        amt0  == FirstIdx({i \in 1..Len(row_vals) : IsAmtHead(row_vals[i])}, -1)
    IN  [date_idx |-> IF date0 = -1 THEN 0 ELSE date0,
         desc_idx |-> IF desc0 = -1 THEN Min(2, Len(cols) - 1) ELSE desc0,
         type_idx |-> IF type0 = -1
                      THEN FirstIdx({i \in 1..Len(cols) : IsTypeName(cols[i])}, Min(4, Len(cols) - 1)) ELSE type0,
         amt_idx  |-> IF amt0 = -1 THEN FirstIdx({i \in 1..Len(cols) : IsAmtName(cols[i])}, Len(cols) - 1) ELSE amt0]

\* end (exclusive) of re.match(r'[A-Za-z]{3}\s+\d{1,2},?\s*\d{4}', s), 0 when none
RECURSIVE SpacesEnd(_, _)
SpacesEnd(s, i) == IF IsSpace(Ch(s, i)) THEN SpacesEnd(s, i + 1) ELSE i

DateMatchWith(s, a) ==
    LET sp == SpacesEnd(s, 4)
        c == sp + a
        d == IF Ch(s, c) = "," THEN c + 1 ELSE c
        e == SpacesEnd(s, d)
    IN  IF /\ \A j \in 1..3 : IsAlpha(Ch(s, j))
           /\ sp > 4
           /\ \A j \in sp..(sp + a - 1) : IsDigit(Ch(s, j))
           /\ \A j \in e..(e + 3) : IsDigit(Ch(s, j))
        THEN e + 4 ELSE 0

DateMatchEnd(s) == IF DateMatchWith(s, 2) # 0 THEN DateMatchWith(s, 2) ELSE DateMatchWith(s, 1)

\* step 1 of a row: the date text, joined with the next cell when it continues the date
RawDateStr(vals, date_idx) ==
    LET raw == Str(vals[date_idx + 1])
        next_val == IF date_idx + 1 < Len(vals) THEN Strip(Str(vals[date_idx + 2])) ELSE ""
    IN  IF next_val # "" /\ (HasYear(next_val) \/ ContainsAny(Lower(next_val), MonthAbbrevs))
        THEN raw \o " " \o next_val ELSE raw

DescStopWords == {"DEBIT", "CREDIT", "RECEIVED", "PAID", "SENT", "REFUND", "DR", "CR"}

\* step 2: the cells from ci (0-based) up to the first type keyword or currency cell
RECURSIVE DescParts(_, _)
DescParts(vals, ci) ==
    IF ci >= Len(vals) THEN <<>>
    ELSE LET v == Strip(Str(vals[ci + 1]))
         IN  IF Upper(v) \in DescStopWords \/ Contains(v, "₹") THEN <<>>
             ELSE IF Lower(v) \notin {"nan", "none", ""}
                  THEN <<v>> \o DescParts(vals, ci + 1)
                  ELSE DescParts(vals, ci + 1)

HeaderResidue == {"transaction details", "date transaction", "details"}

MinCells == 3
CrammedLen == 15

\* step 2 with its fallback: the text of cell 0 after the date pattern
Description(vals, idx) ==
    IF Strip(Join(DescParts(vals, idx.desc_idx), " ")) # ""
    THEN Strip(Join(DescParts(vals, idx.desc_idx), " "))
    ELSE IF DateMatchEnd(Str(vals[1])) # 0
         THEN Strip(SubSeq(Str(vals[1]), DateMatchEnd(Str(vals[1])), Len(Str(vals[1]))))
         ELSE ""

\* lines 261-263: the amount of the scan, else of the fixed type and amount cells
ResolvedAmount(vals, idx, scan) ==
    IF scan.amt <= 0 /\ Len(vals) > idx.amt_idx
    THEN clean_amount(T(Str(vals[idx.type_idx + 1]) \o " " \o Str(vals[idx.amt_idx + 1])))
    ELSE scan.amt

\* lines 265-274
MessyEmit(dt, desc, scan, amt) ==
    IF amt <= 0 THEN Skip("no_amount")
    ELSE Emit(IF scan.amt > 0 THEN "scan" ELSE "fixed",
              Txn(dt, desc, _classify_amount(scan.type_str, amt)), scan.type_str, amt)

\* lines 254-274
MessyAmount(vals, idx, dt, desc, scan) ==
    IF desc = "" \/ Lower(desc) \in HeaderResidue THEN Skip("no_desc")
    ELSE MessyEmit(dt, desc, scan, ResolvedAmount(vals, idx, scan))

\* the row loop after a valid date: description, amount, classification
MessyNormal(vals, idx, dt) ==
    MessyAmount(vals, idx, dt, Description(vals, idx), _scan_type_amount(vals, 0))

\* lines 219-233 with the date dt of the peeled prefix
CrammedEmit(vals, idx, dt, remaining_desc, scan) ==
    IF dt.ok /\ remaining_desc # "" /\ scan.amt > 0
    THEN Emit("crammed", Txn(dt, remaining_desc, _classify_amount(scan.type_str, scan.amt)),
              scan.type_str, scan.amt)
    ELSE IF ~dt.ok THEN Skip("no_date")
    ELSE MessyNormal(vals, idx, dt)

\* lines 215-230: cell 0 matched the date pattern up to m (exclusive)
MessyCrammed(vals, idx, col0_str, m) ==
    CrammedEmit(vals, idx, _safe_parse_date(SubSeq(col0_str, 1, m - 1)),
                Strip(SubSeq(col0_str, m, Len(col0_str))), _scan_type_amount(vals, 1))

\* lines 213-274 with dt, the date of step 1
MessyDated(vals, idx, dt) ==
    IF ~dt.ok /\ Len(Str(vals[1])) > CrammedLen /\ DateMatchEnd(Str(vals[1])) # 0
    THEN MessyCrammed(vals, idx, Str(vals[1]), DateMatchEnd(Str(vals[1])))
    ELSE IF ~dt.ok THEN Skip("no_date")
    ELSE MessyNormal(vals, idx, dt)

\* one iteration of the row loop
MessyRow(idx, vals) ==
    IF Len(vals) < MinCells THEN Skip("short")
    ELSE MessyDated(vals, idx, _safe_parse_date(RawDateStr(vals, idx.date_idx)))

(***************************************************************************)
(* _compute_summary.  round(x, 2) leaves a number of hundredths unchanged.  *)
(* top_merchants is left out: it is a second grouping of the same debits.   *)
(***************************************************************************)
SpanLimit == 60

RECURSIVE SumOf(_, _)
SumOf(seq, field) ==
    IF seq = <<>> THEN 0
    ELSE (IF field = "Debit" THEN Head(seq).Debit ELSE Head(seq).Credit)
         + SumOf(Tail(seq), field)

Ordinals(processed) == {Ordinal(processed[i].Date) : i \in 1..Len(processed)}
MaxOf(S) == CHOOSE a \in S : \A b \in S : b <= a
MinOf(S) == CHOOSE a \in S : \A b \in S : a <= b

\* (processed['Date'].max() - processed['Date'].min()).days
date_range_days(processed) == MaxOf(Ordinals(processed)) - MinOf(Ordinals(processed))

\* dt.to_period('W'): the Monday-to-Sunday week; dt.to_period('M'): the month
WeekOf(dt) == (Ordinal(dt) - 1) \div 7
MonthOfYear(dt) == 12 * dt.y + (dt.m - 1)

\* faulty variant of UseWeekly: a span of exactly SpanLimit days goes monthly
UseWeekly_strict(days) == days < SpanLimit

UseWeekly(days) == days <= SpanLimit

\* processed[processed['Debit'] > 0].groupby(key)['Debit'].sum().to_dict()
RECURSIVE SumWhere(_, _, _, _)
SumWhere(seq, weekly, by_category, k) ==
    IF seq = <<>> THEN 0
    ELSE LET t == Head(seq)
             key == IF by_category THEN t.Category
                    ELSE IF weekly THEN WeekOf(t.Date) ELSE MonthOfYear(t.Date)
         IN  (IF t.Debit > 0 /\ key = k THEN t.Debit ELSE 0)
             + SumWhere(Tail(seq), weekly, by_category, k)

DebitGroups(processed, weekly, by_category) ==
    LET keys == {IF by_category THEN processed[i].Category
                 ELSE IF weekly THEN WeekOf(processed[i].Date)
                      ELSE MonthOfYear(processed[i].Date) :
                 i \in {j \in 1..Len(processed) : processed[j].Debit > 0}}
    IN  [k \in keys |-> SumWhere(processed, weekly, by_category, k)]

_compute_summary(processed) ==
    LET weekly == UseWeekly(date_range_days(processed))
    IN  [total_debit |-> SumOf(processed, "Debit"),
         total_credit |-> SumOf(processed, "Credit"),
         category_breakdown |-> DebitGroups(processed, FALSE, TRUE),
         time_spends |-> DebitGroups(processed, weekly, FALSE),
         time_label |-> IF weekly THEN "Weekly Spends" ELSE "Monthly Spends",
         transactions |-> processed]

NoSummary ==
    [total_debit |-> 0, total_credit |-> 0, category_breakdown |-> <<>>,
     time_spends |-> <<>>, time_label |-> "", transactions |-> <<>>]

(***************************************************************************)
(* process_dataframe: the dispatcher                                       *)
(***************************************************************************)
\* [str(c).strip().lower() for c in df.columns]
StandardizeColumns(cols) == [i \in 1..Len(cols) |-> Lower(Strip(cols[i]))]

DateTokens == {"date", "txn date", "value date"}
DescTokens == {"description", "desc", "details", "narration", "particulars", "merchant",
               "transaction"}
AmountTokens == {"debit", "credit", "withdrawal", "deposit", "amount", "dr", "cr"}

has_named_date(col_str) == ContainsAny(col_str, DateTokens)
has_named_desc(col_str) == ContainsAny(col_str, DescTokens)
has_named_amounts(col_str) == ContainsAny(col_str, AmountTokens)

\* faulty variant of SelectStrategy: the amount evidence is not required
SelectStrategy_no_amounts(cols) ==
    IF has_named_date(Join(cols, " ")) /\ has_named_desc(Join(cols, " "))
    THEN "tabular" ELSE "messy"

SelectStrategy(cols) ==
    LET col_str == Join(cols, " ")
    IN  IF has_named_date(col_str) /\ has_named_desc(col_str) /\ has_named_amounts(col_str)
        THEN "tabular" ELSE "messy"

(***************************************************************************)
(* Input tables: a header and a pool of rows of that width.  A run takes    *)
(* one header and up to MaxRows rows of its pool, in any order, repeats     *)
(* included.                                                               *)
(***************************************************************************)
MaxRows == 2

None == [k |-> "nan", s |-> "None", n |-> 0]   \* a missing cell of a PDF grid
E == T("")                                     \* an empty text cell

\* explicit debit and credit columns (names as exported: mixed case, padded)
DebitCreditTable ==
    [columns |-> <<" Date", "Narration", "Debit ", "Credit">>,
     pool |-> {<<T("05/01/2024"), T("Swiggy Order"), T("250"), T("0")>>,
               <<T("15/01/2024"), T("Salary"), T("0"), T("₹1,234.50")>>,
               <<T("05/03/2024"), T("Uber"), T("-5.50"), T("10")>>,
               <<T("06/03/2024"), T("Refund Amazon"), N("-5", -500), NaN>>,
               <<NaN, T("Swiggy Order"), T("250"), T("0")>>,
               <<T("05/01/2024"), NaN, T("250"), T("0")>>,
               <<T("05/01/2024"), T("Netflix"), T("abc"), T("0")>>,
               <<T("23/07/2024"), T("Netflix"), N("499.0", 49900), T("0")>>}]

\* debit, credit and an amount column besides
DebitCreditAmountTable ==
    [columns |-> <<"date", "narration", "debit", "credit", "amount">>,
     pool |-> {<<T("05/01/2024"), T("Uber"), T("250"), T("0"), T("999")>>,
               <<T("15/01/2024"), T("Salary"), T("0"), T("300"), T("999")>>,
               <<T("05/01/2024"), T("Uber"), T("0"), T("0"), T("999")>>}]

\* an amount and a type column
AmountTypeTable ==
    [columns |-> <<"txn date", "particulars", "amount", "type">>,
     pool |-> {<<T("05/01/2024"), T("Uber"), T("150"), T("DEBIT")>>,
               <<T("15/01/2024"), T("Salary"), T("1,000"), T("Credit")>>,
               <<T("05/03/2024"), T("Amazon"), T("-5.50"), T("CR")>>,
               <<T("06/03/2024"), T("Mart"), T("75"), NaN>>,
               <<T("05/01/2024"), T("Coffee"), T("0"), T("DR")>>}]

\* an amount column alone; the dates lie 10, 60, 61 and 200 days after the first
AmountOnlyTable ==
    [columns |-> <<"date", "details", "amount">>,
     pool |-> {<<T("05/01/2024"), T("Uber"), T("250")>>,
               <<T("15/01/2024"), T("Swiggy"), T("100")>>,
               <<T("05/03/2024"), T("Amazon"), T("40")>>,
               <<T("06/03/2024"), T("Netflix"), T("499")>>,
               <<T("23/07/2024"), T("Recharge"), T("₹99")>>,
               <<T("10:30 am"), T("Uber"), T("250")>>}]

\* a debit column only, no credit and no amount column
DebitOnlyTable ==
    [columns |-> <<"date", "details", "debit">>,
     pool |-> {<<T("05/01/2024"), T("Uber"), T("250")>>,
               <<T("15/01/2024"), T("Swiggy"), N("100", 10000)>>,
               <<NaN, T("Uber"), T("0")>>}]

\* a credit column only
CreditOnlyTable ==
    [columns |-> <<"date", "details", "credit">>,
     pool |-> {<<T("05/01/2024"), T("Salary"), T("5000")>>,
               <<T("15/01/2024"), T("Refund"), T("₹40")>>}]

\* amount evidence for the dispatcher ('dr', 'cr') in a type column only
TypeOnlyTable ==
    [columns |-> <<"date", "details", "dr/cr type">>,
     pool |-> {<<T("05/01/2024"), T("Uber"), T("DR")>>,
               <<T("15/01/2024"), T("Salary"), T("CR")>>}]

\* an unlabeled grid of three columns
Grid3Table ==
    [columns |-> <<"col_0", "col_1", "col_2">>,
     pool |-> {<<T("Jan 5, 2024 Paid to Uber ₹150 DEBIT"), E, E>>,
               <<T("Jan 5, 2024 Paid to Uber ₹150 DEBIT"), None, None>>,
               <<T("Jan 15, 2024"), T("₹250"), T("Swiggy")>>,
               <<T("Mar 5, 2024"), T("CR ₹1,000"), T("Salary")>>,
               <<T("Jan 5, 2024 Paid to Uber 150"), T("DEBIT"), T("₹150")>>}]

\* an unlabeled grid of six columns, as a wallet statement's PDF yields
Grid6Table ==
    [columns |-> <<"col_0", "col_1", "col_2", "col_3", "col_4", "col_5">>,
     pool |-> {<<T("Date"), E, T("Transaction Details"), E, T("Type"), T("Amount")>>,
               <<T("Jan 5, 2024"), E, T("Paid to Uber"), E, T("DEBIT"), T("₹150")>>,
               <<T("Jan 15"), T("2024"), T("Salary"), None, T("CREDIT"), T("₹1,234.50")>>,
               <<T("Mar 5, 2024"), E, T("Amazon"), T("₹150"), T("DEBIT"), T("123456")>>,
               <<T("Mar 6, 2024"), E, T("Refund Amazon"), E, E, T("₹99")>>,
               <<T("Jul 23, 2024"), E, T("Netflix"), T("₹499"), T("₹20"), T("Withdrawal")>>,
               <<T("Jan 5, 2024"), E, T("Mart"), E, E, T("150")>>,
               <<T("Jan 5, 2024"), E, T("Coffee"), E, T("DEBIT"), T("₹-5.50")>>,
               <<T("Jan 5, 2024 Paid to Uber 150"), E, E, T("Received"), T("₹150"), T("DR")>>}]

\* two of the three kinds of header evidence
DateDescTable ==
    [columns |-> <<"date", "details", "balance">>,
     pool |-> {<<T("Jan 5, 2024"), T("₹150"), T("Uber")>>,
               <<T("Jan 15, 2024"), T("CR"), T("Salary 300")>>}]

DateAmountTable ==
    [columns |-> <<"date", "amount", "col_2">>,
     pool |-> {<<T("Jan 5, 2024"), T("₹150"), T("Uber")>>,
               <<T("Jan 15, 2024"), T("250"), T("Swiggy")>>}]

DescAmountTable ==
    [columns |-> <<"details", "type", "amount">>,
     pool |-> {<<T("Jan 5, 2024 Paid to Uber"), T("DEBIT"), T("150")>>,
               <<T("Uber"), T("DEBIT"), T("₹150")>>}]

\* a grid too narrow for the positional scan
Grid2Table ==
    [columns |-> <<"col_0", "col_1">>,
     pool |-> {<<T("Jan 5, 2024"), T("Uber ₹150 DEBIT")>>,
               <<T("Jan 15, 2024 Swiggy ₹250"), T("DEBIT")>>}]

Tables ==
    {DebitCreditTable, DebitCreditAmountTable, AmountTypeTable, AmountOnlyTable,
     DebitOnlyTable, CreditOnlyTable, TypeOnlyTable, Grid3Table, Grid6Table,
     DateDescTable, DateAmountTable, DescAmountTable, Grid2Table}

RowSeqs(pool) == UNION {[1..n -> pool] : n \in 0..MaxRows}

(***************************************************************************)
(* The run of process_dataframe on one table                               *)
(***************************************************************************)
NoRoles == [none |-> TRUE]

Init ==
    /\ \E t \in Tables : columns = t.columns /\ rows \in RowSeqs(t.pool)
    /\ pc = "dispatch"
    /\ strategy = "none"
    /\ roles = NoRoles
    /\ ri = 1
    /\ processed_rows = <<>>
    /\ last = Skip("none")
    /\ outcome = "none"
    /\ message = ""
    /\ summary = NoSummary

\* lines 317-330: standardize the column names and choose the strategy
Dispatch ==
    /\ pc = "dispatch"
    /\ columns' = StandardizeColumns(columns)
    /\ strategy' = SelectStrategy(columns')
    /\ pc' = IF strategy' = "tabular" THEN "tabular_roles" ELSE "messy_header"
    /\ UNCHANGED <<rows, roles, ri, processed_rows, last, outcome, message, summary>>

\* _process_tabular up to the row loop: resolve the roles, raise when one is missing
TabularResolve ==
    /\ pc = "tabular_roles"
    /\ roles' = TabularRoles(columns)
    /\ message' = TabularMissing(roles')
    /\ IF message' # ""
       THEN pc' = "done" /\ outcome' = "error"
       ELSE pc' = "tabular_rows" /\ outcome' = outcome
    /\ UNCHANGED <<columns, rows, strategy, ri, processed_rows, last, summary>>

\* one iteration of _process_tabular's row loop
TabularStep ==
    /\ pc = "tabular_rows"
    /\ ri <= Len(rows)
    /\ last' = TabularRow(columns, roles, rows[ri])
    /\ processed_rows' = IF last'.emit THEN Append(processed_rows, last'.txn)
                         ELSE processed_rows
    /\ ri' = ri + 1
    /\ UNCHANGED <<columns, rows, pc, strategy, roles, outcome, message, summary>>

\* _process_messy_pdf up to the row loop: header discovery and default indices
MessyHeader ==
    /\ pc = "messy_header"
    /\ roles' = MessyIndices(columns, rows)
    /\ pc' = "messy_rows"
    /\ UNCHANGED <<columns, rows, strategy, ri, processed_rows, last, outcome, message,
                   summary>>

\* one iteration of _process_messy_pdf's row loop
MessyStep ==
    /\ pc = "messy_rows"
    /\ ri <= Len(rows)
    /\ last' = MessyRow(roles, rows[ri])
    /\ processed_rows' = IF last'.emit THEN Append(processed_rows, last'.txn)
                         ELSE processed_rows
    /\ ri' = ri + 1
    /\ UNCHANGED <<columns, rows, pc, strategy, roles, outcome, message, summary>>

\* faulty variant of IsEmpty: a single transaction counts as empty
IsEmpty_off_by_one(processed) == Len(processed) <= 1

\* pd.DataFrame(processed_rows).empty
IsEmpty(processed) == processed = <<>>

\* lines 332-337: the strategy returned; raise on an empty result, else summarize
Finish ==
    /\ pc \in {"tabular_rows", "messy_rows"}
    /\ ri > Len(rows)
    /\ pc' = "done"
    /\ IF IsEmpty(processed_rows)
       THEN outcome' = "error" /\ message' = "no valid transactions" /\ summary' = summary
       ELSE /\ outcome' = "summary" /\ message' = message
            /\ summary' = _compute_summary(processed_rows)
    /\ UNCHANGED <<columns, rows, strategy, roles, ri, processed_rows, last>>

Next ==
    \/ Dispatch
    \/ TabularResolve
    \/ TabularStep
    \/ MessyHeader
    \/ MessyStep
    \/ Finish

Spec == Init /\ [][Next]_vars

(***************************************************************************)
(* Properties                                                              *)
(***************************************************************************)
\* the row the latest loop iteration read
LastRow == rows[ri - 1]
RowDone(strat) == strategy = strat /\ ri > 1

RECURSIVE SetSum(_, _)
SetSum(f, S) ==
    IF S = {} THEN 0 ELSE LET k == CHOOSE x \in S : TRUE IN f[k] + SetSum(f, S \ {k})

\* C1: no transaction with debit = 0 and credit = 0 is in the list a strategy
\* produces, nor in the list the summary was computed from.
C1_NoZeroTransaction ==
    /\ \A i \in 1..Len(processed_rows) :
          ~(processed_rows[i].Debit = 0 /\ processed_rows[i].Credit = 0)
    /\ \A i \in 1..Len(summary.transactions) :
          ~(summary.transactions[i].Debit = 0 /\ summary.transactions[i].Credit = 0)

\* a row with zero amounts was discarded and the rest reached the summary
C1_Witness ==
    /\ outcome = "summary"
    /\ last.path = "no_amount"
    /\ Len(processed_rows) >= 1

\* C2: every emitted transaction has debit >= 0 and credit >= 0, signed negative
\* amount cells included.
C2_AmountsNonNegative ==
    \A i \in 1..Len(processed_rows) :
        processed_rows[i].Debit >= 0 /\ processed_rows[i].Credit >= 0

\* some column name contains one of the tokens
ColumnsHave(kws) == \E i \in 1..Len(columns) : ContainsAny(columns[i], kws)

\* C3: the dispatcher selects the tabular strategy exactly when the column names
\* hold date, description and amount evidence, and the messy strategy otherwise;
\* there is no third outcome.
C3_DispatchByEvidence ==
    strategy # "none" =>
        /\ strategy \in {"tabular", "messy"}
        /\ strategy = "tabular" <=>
              (ColumnsHave(DateTokens) /\ ColumnsHave(DescTokens) /\ ColumnsHave(AmountTokens))
        /\ columns = <<"date", "narration", "debit", "credit">> => strategy = "tabular"
        /\ columns = <<"col_0", "col_1", "col_2">> => strategy = "messy"

\* a header with two of the three kinds of evidence went to the messy strategy
C3_Witness ==
    /\ strategy = "messy"
    /\ ColumnsHave(DateTokens) /\ ColumnsHave(DescTokens) /\ ~ColumnsHave(AmountTokens)

\* C4: a messy row whose cell 0 is "Jan 5, 2024 Paid to Uber ₹150 DEBIT", the
\* other cells empty, yields one transaction dated 2024-01-05 whose description
\* contains "Uber", with debit = 150.0 and credit = 0.0.
C4_CrammedCellAmount ==
    (/\ RowDone("messy")
     /\ Len(LastRow) >= 3
     /\ Str(LastRow[1]) = "Jan 5, 2024 Paid to Uber ₹150 DEBIT"
     /\ \A j \in 2..Len(LastRow) : LastRow[j] \in {E, None})
    => /\ last.emit
       /\ last.txn.Date = Date(2024, 1, 5)
       /\ Contains(last.txn.Description, "Uber")
       /\ last.txn.Debit = 15000
       /\ last.txn.Credit = 0

\* the cells (0-based) of a row that carry a currency glyph, that are a type keyword
GlyphCells(vals) == {ci \in 0..(Len(vals) - 1) : Contains(Str(vals[ci + 1]), "₹")}
KeywordCells(vals) ==
    {ci \in 0..(Len(vals) - 1) : Upper(Strip(Str(vals[ci + 1]))) \in TypeKeywords}

\* C5: in the scan of a row the resolved type is the last cell that is a type
\* keyword and the resolved amount is the value of the last cell that carries a
\* currency glyph; a cell without the glyph never sets or overrides the amount.
C5_ScanLastGlyphCell ==
    (RowDone("messy") /\ last.emit /\ last.path = "scan" /\ GlyphCells(LastRow) # {})
    => /\ last.type_str = IF KeywordCells(LastRow) = {} THEN ""
                          ELSE Upper(Strip(Str(LastRow[MaxOf(KeywordCells(LastRow)) + 1])))
       /\ last.amt = clean_amount(LastRow[MaxOf(GlyphCells(LastRow)) + 1])

\* C6: a transaction of the messy strategy carries its amount on exactly one
\* side: on credit for CREDIT/RECEIVED/DEPOSIT/REFUND/CR, on debit for every
\* other resolved type, no type keyword included.
C6_AmountOnOneSide ==
    /\ (strategy = "messy" /\ last.emit) =>
          /\ last.amt > 0
          /\ last.type_str \in {"CREDIT", "RECEIVED", "DEPOSIT", "REFUND", "CR"}
                => (last.txn.Credit = last.amt /\ last.txn.Debit = 0)
          /\ last.type_str \in {"DEBIT", "PAID", "WITHDRAWAL", "SENT", "DR", ""}
                => (last.txn.Debit = last.amt /\ last.txn.Credit = 0)
          /\ last.type_str \in TypeKeywords \cup {""}
    /\ strategy = "messy" =>
          \A i \in 1..Len(processed_rows) :
              \/ processed_rows[i].Debit > 0 /\ processed_rows[i].Credit = 0
              \/ processed_rows[i].Credit > 0 /\ processed_rows[i].Debit = 0

\* a credit-side keyword put the amount on credit alone
C6_Witness ==
    /\ strategy = "messy" /\ last.emit
    /\ last.type_str = "CREDIT"
    /\ last.txn.Credit > 0 /\ last.txn.Debit = 0

\* C7: the tabular strategy reads debit and credit from their columns when both
\* are resolved (an amount column is ignored); otherwise, with an amount and a
\* type column, the amount lands on credit when the type cell holds a credit
\* word and on debit otherwise; otherwise the amount column alone lands on debit.
C7_TabularPrecedence ==
    (RowDone("tabular") /\ last.emit) =>
        LET d == last.txn.Debit
            c == last.txn.Credit
        IN  IF roles.debit_col # "" /\ roles.credit_col # ""
            THEN /\ d = clean_amount(RowGet(columns, LastRow, roles.debit_col))
                 /\ c = clean_amount(RowGet(columns, LastRow, roles.credit_col))
            ELSE IF roles.amount_col # "" /\ roles.type_col # ""
            THEN IF \E w \in {"CR", "CREDIT", "RECEIVED", "DEPOSIT", "REFUND"} :
                        Contains(Upper(Str(RowGet(columns, LastRow, roles.type_col))), w)
                 THEN d = 0 /\ c = clean_amount(RowGet(columns, LastRow, roles.amount_col))
                 ELSE c = 0 /\ d = clean_amount(RowGet(columns, LastRow, roles.amount_col))
            ELSE /\ roles.amount_col # ""
                 /\ c = 0 /\ d = clean_amount(RowGet(columns, LastRow, roles.amount_col))

\* debit, credit and amount columns are all resolved and the amount cell, which
\* differs from the debit cell, was ignored
C7_Witness ==
    /\ RowDone("tabular") /\ last.emit
    /\ roles.debit_col # "" /\ roles.credit_col # "" /\ roles.amount_col # ""
    /\ last.txn.Debit > 0
    /\ clean_amount(RowGet(columns, LastRow, roles.amount_col)) # last.txn.Debit

\* C8: a run ends with a summary of a non-empty transaction list or with the
\* error and no summary; an empty list always ends in the error, and a
\* non-empty one in the summary whatever rows were skipped on the way.
C8_SummaryOrError ==
    /\ outcome \in {"none", "summary", "error"}
    /\ pc # "done" <=> outcome = "none"
    /\ outcome = "summary" =>
          /\ summary.transactions # <<>>
          /\ summary.transactions = processed_rows
          /\ summary.time_label \in {"Weekly Spends", "Monthly Spends"}
          /\ message = ""
    /\ outcome # "summary" => summary = NoSummary
    /\ outcome = "error" <=> message # ""
    /\ (pc = "done" /\ processed_rows = <<>>) => outcome = "error"
    /\ (pc = "done" /\ processed_rows # <<>>) => outcome = "summary"

\* a row was skipped for a bad cell and the run still returned a summary
C8_Witness ==
    /\ outcome = "summary"
    /\ Len(processed_rows) < Len(rows)
    /\ last.path \in {"no_date", "no_desc", "no_amount"}

\* the bucket of a transaction under the label the summary carries
BucketOf(t) ==
    IF summary.time_label = "Weekly Spends" THEN WeekOf(t.Date) ELSE MonthOfYear(t.Date)

\* C9: the buckets are weekly when no two transaction dates lie more than 60
\* days apart (60 included) and monthly otherwise; the series sums debit only
\* and every transaction with debit > 0 is counted in exactly one bucket.
C9_GranularityBySpan ==
    outcome = "summary" =>
        LET tx == summary.transactions
            spend == {i \in 1..Len(tx) : tx[i].Debit > 0}
            within == \A i, j \in 1..Len(tx) :
                          Ordinal(tx[i].Date) - Ordinal(tx[j].Date) <= 60
        IN  /\ summary.time_label = IF within THEN "Weekly Spends" ELSE "Monthly Spends"
            /\ DOMAIN summary.time_spends = {BucketOf(tx[i]) : i \in spend}
            /\ \A k \in DOMAIN summary.time_spends :
                  summary.time_spends[k] =
                      SetSum([i \in spend |-> tx[i].Debit],
                             {i \in spend : BucketOf(tx[i]) = k})
            /\ SetSum(summary.time_spends, DOMAIN summary.time_spends)
                  = SetSum([i \in spend |-> tx[i].Debit], spend)

\* two spending transactions exactly 60 days apart were bucketed by week
C9_Witness ==
    /\ outcome = "summary"
    /\ summary.time_label = "Weekly Spends"
    /\ \E i, j \in 1..Len(summary.transactions) :
          /\ Ordinal(summary.transactions[j].Date) - Ordinal(summary.transactions[i].Date) = 60
          /\ summary.transactions[i].Debit > 0 /\ summary.transactions[j].Debit > 0

\* the header resolves date, description and exactly one of debit and credit,
\* and no amount column
SingleSideHeader ==
    /\ strategy = "tabular" /\ pc \in {"tabular_rows", "done"}
    /\ roles.date_col # "" /\ roles.desc_col # ""
    /\ (roles.debit_col = "") # (roles.credit_col = "")
    /\ roles.amount_col = ""

\* C10: for such a header the tabular strategy raises no missing-column error
\* and skips every row, so the run ends with the empty-result error only.
C10_SingleSideColumnYieldsNothing ==
    SingleSideHeader =>
        /\ message \in {"", "no valid transactions"}
        /\ processed_rows = <<>>
        /\ ri > 1 => ~last.emit
        /\ pc = "done" => (outcome = "error" /\ message = "no valid transactions")

\* a row with a valid date, a description and a positive debit cell was skipped
C10_Witness ==
    /\ SingleSideHeader /\ pc = "done"
    /\ roles.debit_col # "" /\ Len(rows) >= 1
    /\ _safe_parse_date(Str(RowGet(columns, rows[1], roles.date_col))).ok
    /\ clean_amount(RowGet(columns, rows[1], roles.debit_col)) > 0
    /\ message = "no valid transactions"

====
